---- MODULE Spec2Model ----
(***************************************************************************)
(* pmwd/modes.py: white_noise, _safe_sqrt (custom VJP) and linear_modes.   *)
(*                                                                         *)
(* Numbers.  A float is modelled by an extended rational <<n, d>>, d >= 0, *)
(* in lowest terms: d > 0 is the finite value n/d, <<1,0>> is +inf,        *)
(* <<-1,0>> is -inf and <<0,0>> is NaN.  Mul and Div on these follow the   *)
(* IEEE rules that matter here (0*inf = NaN, x/0 = inf, 0/0 = NaN,         *)
(* NaN absorbs); rounding and the sign of zero are not modelled.           *)
(*                                                                         *)
(* Square roots of rationals are kept exact by a second sort: a real x is  *)
(* held as its signed square sgn(x)*x^2 (again an extended rational).      *)
(* Sq embeds a plain number, SqrtOf embeds the root of a plain number,     *)
(* and the product of two signed squares is the signed square of the       *)
(* product.  Mode coefficients, cotangents and sqrt results are signed     *)
(* squares; spectra, volumes and counts are plain.                         *)
(***************************************************************************)
EXTENDS Integers, Sequences, FiniteSets, TLC

VARIABLES wn,   \* the white_noise call in progress and the calls made so far
          sq,   \* one forward/backward pass through _safe_sqrt
          lm,   \* the linear_modes call in progress
          pd    \* the pad / crop steps of linear_modes applied to a field

vars == <<wn, sq, lm, pd>>

----------------------------------------------------------------------------
(* Extended rationals *)

Abs(n) == IF n < 0 THEN -n ELSE n

Sgn(n) == IF n < 0 THEN -1 ELSE IF n > 0 THEN 1 ELSE 0

RECURSIVE GCD(_, _)
GCD(a, b) == IF b = 0 THEN a ELSE GCD(b, a % b)

Norm(n, d) ==
    IF d = 0 THEN <<Sgn(n), 0>>
    ELSE LET s == IF d < 0 THEN -1 ELSE 1
             g == GCD(Abs(n), Abs(d))
         IN  <<(s * n) \div g, (s * d) \div g>>

Zero == <<0, 1>>
One  == <<1, 1>>
Inf  == <<1, 0>>
NaN  == <<0, 0>>

Q(n) == <<n, 1>>

IsFinite(x) == x[2] > 0

\* numerator and denominator are reduced crosswise before they are multiplied
Times(a, b, c, d) ==
    LET g1 == GCD(Abs(a), Abs(d))
        g2 == GCD(Abs(c), Abs(b))
        h1 == IF g1 = 0 THEN 1 ELSE g1
        h2 == IF g2 = 0 THEN 1 ELSE g2
    IN  Norm((a \div h1) * (c \div h2), (b \div h2) * (d \div h1))

Mul(x, y) == IF x[2] = 0 \/ y[2] = 0 THEN Norm(x[1] * y[1], 0)
             ELSE Times(x[1], x[2], y[1], y[2])

Div(x, y) == IF x[2] = 0 \/ y[2] = 0 \/ y[1] = 0 THEN Norm(x[1] * y[2], x[2] * y[1])
             ELSE Times(x[1], x[2], Sgn(y[1]) * y[2], Abs(y[1]))

\* plain x  |->  signed square of x
Sq(x) == Norm(Sgn(x[1]) * x[1] * x[1], x[2] * x[2])

\* plain x  |->  signed square of sqrt(x); sqrt of a negative number is NaN
SqrtOf(x) == IF x[1] < 0 THEN NaN ELSE x

\* |x| as a plain number squared, from the signed square of x
AbsSq(x) == <<Abs(x[1]), x[2]>>

\* IEEE sum: NaN absorbs, inf - inf is NaN
Add(x, y) ==
    IF x = NaN \/ y = NaN THEN NaN
    ELSE IF x[2] = 0 /\ y[2] = 0 THEN (IF x = y THEN x ELSE NaN)
    ELSE IF x[2] = 0 THEN x
    ELSE IF y[2] = 0 THEN y
    ELSE Norm(x[1] * y[2] + y[1] * x[2], x[2] * y[2])

----------------------------------------------------------------------------
(* Arrays.  An array is [dom, shape, c, ng]: dom is "real" or "spec"       *)
(* (a real-space grid or a half-spectrum of complex coefficients), shape   *)
(* its three extents, and c = <<re, im>> (signed squares) the coefficient  *)
(* at the observed index `at` of its spectrum: of the array itself when    *)
(* dom = "spec", of its orthonormal transform when dom = "real" (that      *)
(* transform is unitary, so the real array and this spectrum determine     *)
(* each other).  ng is the weight carried by the non-Gaussian term of      *)
(* linear_modes, 0 until line 133.  nrm is a factor still to be applied to *)
(* c (as a signed square, like c): the unnormalised transforms multiply    *)
(* and divide by sqrt(N), and nrm collects these factors.                  *)

Prod(s) == s[1] * s[2] * s[3]

\* extents of rfftn's output for a real grid s
HalfShape(s) == <<s[1], s[2], s[3] \div 2 + 1>>

\* extents irfftn gives when no shape is passed
DefaultRealShape(h) == <<h[1], h[2], 2 * (h[3] - 1)>>

\* idx is its own conjugate partner on the real grid s: a real field has a
\* real coefficient there
SelfConj(idx, s) ==
    \A i \in 1..3 : idx[i] = 0 \/ 2 * idx[i] = s[i]

Scale(c, f) == <<Mul(c[1], f), Mul(c[2], f)>>

\* the half-spectrum a real grid can have: real where idx is self-conjugate
Consistent(c, idx, s) == IF SelfConj(idx, s) THEN <<c[1], Zero>> ELSE c

\* pmwd.pm_util.fftfwd(arr, norm='ortho'): rfftn with the unitary convention
FftFwdOrtho(arr) ==
    [arr EXCEPT !.dom = "spec", !.shape = HalfShape(arr.shape)]

\* pmwd.pm_util.fftinv(arr, shape=s, norm='ortho'): irfftn with the unitary
\* convention; the result is real, so what is not Hermitian is dropped
FftInvOrtho(arr, s, at) ==
    [arr EXCEPT !.dom = "real", !.shape = s, !.c = Consistent(arr.c, at, s)]

\* jnp.fft.rfftn(arr): unnormalised forward transform, sqrt(N) times the
\* unitary one
Rfftn(arr) ==
    [arr EXCEPT !.dom = "spec", !.shape = HalfShape(arr.shape),
                !.nrm = Mul(arr.nrm, Q(Prod(arr.shape)))]

\* jnp.fft.irfftn(arr): inverse with the 1/N convention on the default grid
Irfftn(arr, at) ==
    LET s == DefaultRealShape(arr.shape)
    IN  [arr EXCEPT !.dom = "real", !.shape = s,
                    !.c = Consistent(arr.c, at, s),
                    !.nrm = Div(arr.nrm, Q(Prod(s)))]

\* the same array with the collected factor applied
Fold(arr) == [arr EXCEPT !.c = Scale(arr.c, arr.nrm), !.nrm = One]

\* pmwd.pm_util.fftinv(arr, shape=s, norm=spacing): irfftn with the 1/N
\* convention, divided by the cell volume spacing^3
FftInvSpacing(arr, s, spacing, at) ==
    [arr EXCEPT !.dom = "real", !.shape = s,
                !.c = Scale(Consistent(arr.c, at, s),
                            Div(One, Mul(Q(Prod(s)), Sq(Q(spacing * spacing * spacing)))))]

\* numpy broadcasting of two shapes; <<>> when they are incompatible
Broadcast(s, t) ==
    IF \A i \in 1..3 : s[i] = t[i] \/ s[i] = 1 \/ t[i] = 1
    THEN [i \in 1..3 |-> IF s[i] = 1 THEN t[i] ELSE s[i]]
    ELSE <<>>

----------------------------------------------------------------------------
(* _safe_sqrt and its custom VJP, lines 52-64 *)

\* line 54: jnp.sqrt(x)
SafeSqrt(x) == SqrtOf(x)

\* lines 56-58: (primal output, residual)
SafeSqrtFwd(x) == LET y == SafeSqrt(x) IN <<y, y>>

\* lines 60-62: jnp.where(y != 0, 0.5 / y * y_cot, 0)
SafeSqrtBwdUnguarded(y, y_cot) == Mul(Div(Sq(<<1, 2>>), y), y_cot)

SafeSqrtBwd(y, y_cot) ==
    IF y # Zero THEN Mul(Div(Sq(<<1, 2>>), y), y_cot) ELSE Zero

MaxNum == 3

\* plain inputs x of the forward pass
SqrtInputs ==
    {Norm(n, d) : n \in -1..MaxNum, d \in 1..2} \cup {Inf, <<-1, 0>>, NaN}

\* cotangents (signed squares)
Cotangents ==
    {Norm(n, d) : n \in -MaxNum..MaxNum, d \in 1..2} \cup {Inf, <<-1, 0>>, NaN}

SqIdle == [pc |-> "idle", x |-> Zero, y |-> Zero, res |-> Zero,
           y_cot |-> Zero, x_cot |-> Zero]

SqInit == sq \in {[SqIdle EXCEPT !.pc = "fwd", !.x = x] : x \in SqrtInputs}

\* the forward rule runs and saves its residual
SqFwd ==
    /\ sq.pc = "fwd"
    /\ LET r == SafeSqrtFwd(sq.x)
       IN  sq' = [sq EXCEPT !.pc = "bwd", !.y = r[1], !.res = r[2]]
    /\ UNCHANGED <<wn, lm, pd>>

\* the backward rule runs on the residual and an incoming cotangent
SqBwd ==
    /\ sq.pc = "bwd"
    /\ \E c \in Cotangents :
          sq' = [sq EXCEPT !.pc = "done", !.y_cot = c,
                           !.x_cot = SafeSqrtBwd(sq.res, c)]
    /\ UNCHANGED <<wn, lm, pd>>

----------------------------------------------------------------------------
(* white_noise, lines 12-49 *)

MaxSeed == 1
MaxCalls == 3
MaxExtent == 8
PadDiv == 4

Seeds == 0..MaxSeed

\* line 33: random.PRNGKey(seed), the pair of 32-bit words of a seed in
\* 0 .. 2^31 - 1
PRNGKeyOfCallCount(seed) == <<0, seed + wn.ncalls>>

PRNGKey(seed) == <<0, seed>>

\* line 36: random.normal(key, shape, dtype), seen through the coefficient at
\* `at` of its orthonormal spectrum: a fixed function of key, shape and at,
\* mixing them into a few values (0 among them)
Normal(key, shape, at) ==
    LET h == key[2] * 7 + at[1] * 3 + at[2] * 5 + at[3] * 11 + Prod(shape)
    IN  [dom |-> "real", shape |-> shape,
         c |-> Consistent(<<Sq(Q((h % 5) - 2)), Sq(Q(((h \div 5) % 3) - 1))>>,
                          at, shape),
         ng |-> Zero, nrm |-> One]

\* line 44: modes /= jnp.abs(modes)
UnitAbs(arr) ==
    LET m == Add(AbsSq(arr.c[1]), AbsSq(arr.c[2]))
    IN  [arr EXCEPT !.c = <<Div(arr.c[1], m), Div(arr.c[2], m)>>]

NoArr == [dom |-> "none", shape |-> <<0, 0, 0>>, c |-> <<Zero, Zero>>, ng |-> Zero,
          nrm |-> One]

WnShapes == {<<n, n, n>> : n \in {e \in 1..MaxExtent : e % PadDiv = 0}}
            \cup {<<2, 3, 5>>}

WnAts == {<<0, 0, 0>>, <<1, 0, 1>>}

WnInit ==
    \E s \in WnShapes, a \in WnAts :
        wn = [pc |-> "idle", seed |-> 0, real |-> FALSE, unit_abs |-> FALSE,
              shape |-> s, at |-> a, key |-> <<0, 0>>, modes |-> NoArr,
              trace |-> <<>>, out |-> NoArr, hist |-> {}, ncalls |-> 0,
              other |-> 0]

\* a caller invokes white_noise(seed, conf, real, unit_abs)
WnCall ==
    /\ wn.pc \in {"idle", "done"}
    /\ wn.ncalls < MaxCalls
    /\ \E sd \in Seeds, r \in BOOLEAN, u \in BOOLEAN :
          wn' = [wn EXCEPT !.pc = "L33", !.seed = sd, !.real = r,
                           !.unit_abs = u, !.key = <<0, 0>>, !.modes = NoArr,
                           !.trace = <<>>, !.out = NoArr]
    /\ UNCHANGED <<sq, lm, pd>>

\* a caller invokes linear_modes between two white_noise calls: it is a pure
\* function and leaves nothing behind that white_noise reads
WnLinearModesCall ==
    /\ wn.pc \in {"idle", "done"}
    /\ wn.other < MaxCalls
    /\ wn' = [wn EXCEPT !.other = @ + 1]
    /\ UNCHANGED <<sq, lm, pd>>

\* line 33
WnKey ==
    /\ wn.pc = "L33"
    /\ wn' = [wn EXCEPT !.pc = "L36", !.key = PRNGKey(wn.seed)]
    /\ UNCHANGED <<sq, lm, pd>>

\* line 36
WnSample ==
    /\ wn.pc = "L36"
    /\ wn' = [wn EXCEPT !.pc = "L38", !.modes = Normal(wn.key, wn.shape, wn.at),
                        !.trace = Append(@, "normal")]
    /\ UNCHANGED <<sq, lm, pd>>

WnReturned(w, arr) ==
    [w EXCEPT !.pc = "done", !.out = arr, !.ncalls = @ + 1,
              !.hist = @ \cup {[seed |-> w.seed, real |-> w.real,
                                unit_abs |-> w.unit_abs, out |-> arr]}]

\* lines 38-41: return the samples, or forward-transform them
WnEarlyReturnRealOnly(real, unit_abs) == real

WnEarlyReturn(real, unit_abs) == real /\ ~unit_abs

WnBranch ==
    /\ wn.pc = "L38"
    /\ wn' = IF WnEarlyReturn(wn.real, wn.unit_abs)
             THEN WnReturned(wn, wn.modes)
             ELSE [wn EXCEPT !.pc = "L43", !.modes = FftFwdOrtho(wn.modes),
                             !.trace = Append(@, "fftfwd_ortho")]
    /\ UNCHANGED <<sq, lm, pd>>

\* lines 43-44
WnUnitAbs ==
    /\ wn.pc = "L43"
    /\ wn' = IF wn.unit_abs
             THEN [wn EXCEPT !.pc = "L46", !.modes = UnitAbs(wn.modes),
                             !.trace = Append(@, "unit_abs")]
             ELSE [wn EXCEPT !.pc = "L46"]
    /\ UNCHANGED <<sq, lm, pd>>

\* lines 46-47
WnInverse ==
    /\ wn.pc = "L46"
    /\ wn' = IF wn.real
             THEN [wn EXCEPT !.pc = "L49",
                             !.modes = FftInvOrtho(wn.modes, wn.shape, wn.at),
                             !.trace = Append(@, "fftinv_ortho")]
             ELSE [wn EXCEPT !.pc = "L49"]
    /\ UNCHANGED <<sq, lm, pd>>

\* line 49
WnReturn ==
    /\ wn.pc = "L49"
    /\ wn' = WnReturned(wn, wn.modes)
    /\ UNCHANGED <<sq, lm, pd>>

WnNext == WnCall \/ WnLinearModesCall \/ WnKey \/ WnSample \/ WnBranch
          \/ WnUnitAbs \/ WnInverse \/ WnReturn


----------------------------------------------------------------------------
(* The anti-aliasing pad and crop of linear_modes, lines 118-120 and       *)
(* 126-128, on a field given entry by entry: [shape, data], data a         *)
(* function from the index triples of shape to plain numbers (one          *)
(* component of the complex coefficients; both are moved and scaled        *)
(* alike).                                                                 *)

Max(a, b) == IF a > b THEN a ELSE b
Min(a, b) == IF a < b THEN a ELSE b

Idx(s) == (0..(s[1] - 1)) \X (0..(s[2] - 1)) \X (0..(s[3] - 1))

\* (3/2)**3.
PadFactor == Mul(Mul(<<3, 2>>, <<3, 2>>), <<3, 2>>)

\* jnp.fft.fftshift on axes 0 and 1: the entry at i moves to (i + n//2) mod n
ShiftIdx(i, s) ==
    <<(i[1] + s[1] \div 2) % s[1], (i[2] + s[2] \div 2) % s[2], i[3]>>

\* jnp.fft.ifftshift on axes 0 and 1: the entry at i moves to (i - n//2) mod n
UnshiftIdx(i, s) ==
    <<(i[1] + s[1] - s[1] \div 2) % s[1], (i[2] + s[2] - s[2] \div 2) % s[2], i[3]>>

FftShift(f) ==
    [f EXCEPT !.data = [i \in Idx(f.shape) |-> f.data[UnshiftIdx(i, f.shape)]]]

IfftShift(f) ==
    [f EXCEPT !.data = [i \in Idx(f.shape) |-> f.data[ShiftIdx(i, f.shape)]]]

\* line 119: widths of jnp.pad, before and after, per axis
PadBeforeAllAxes(grid) ==
    <<grid[1] \div PadDiv, grid[2] \div PadDiv, grid[3] \div PadDiv>>

PadBefore(grid) == <<grid[1] \div PadDiv, grid[2] \div PadDiv, 0>>
PadAfter(grid)  == <<grid[1] \div PadDiv, grid[2] \div PadDiv, grid[3] \div PadDiv>>

PadShape(s, grid) == [a \in 1..3 |-> PadBefore(grid)[a] + s[a] + PadAfter(grid)[a]]

\* where the entry at i goes under the pad
PadIdx(i, grid) == [a \in 1..3 |-> i[a] + PadBefore(grid)[a]]

\* line 119: jnp.pad(...) * (3/2)**3.
Pad(f, grid) ==
    LET b == PadBefore(grid)
        t == PadShape(f.shape, grid)
    IN  [shape |-> t,
         data  |-> [i \in Idx(t) |->
                      IF \A a \in 1..3 : i[a] >= b[a] /\ i[a] < b[a] + f.shape[a]
                      THEN Mul(f.data[<<i[1] - b[1], i[2] - b[2], i[3] - b[3]>>],
                               PadFactor)
                      ELSE Zero]]

\* line 127: the slice [n0//4 : -n0//4, n1//4 : -n1//4, : -n2//4]; Python
\* reads -n//4 as (-n)//4, the floor of -n/4, and counts a negative stop
\* from the end
CropStart(grid) == <<grid[1] \div PadDiv, grid[2] \div PadDiv, 0>>

CropStop(s, grid) == [a \in 1..3 |-> Max(0, s[a] + ((-grid[a]) \div PadDiv))]

CropShape(s, grid) ==
    [a \in 1..3 |-> Max(0, CropStop(s, grid)[a] - Min(CropStart(grid)[a], s[a]))]

\* line 127: modes_NG[...] / (3/2)**3.
CropKeepFactor(f, grid) ==
    LET b == CropStart(grid)
        t == CropShape(f.shape, grid)
    IN  [shape |-> t,
         data  |-> [i \in Idx(t) |-> f.data[<<i[1] + b[1], i[2] + b[2], i[3] + b[3]>>]]]

Crop(f, grid) ==
    LET b == CropStart(grid)
        t == CropShape(f.shape, grid)
    IN  [shape |-> t,
         data  |-> [i \in Idx(t) |->
                      Div(f.data[<<i[1] + b[1], i[2] + b[2], i[3] + b[3]>>],
                          PadFactor)]]

MaxFieldScale == 2

Extents == 1..MaxExtent

Grids == Extents \X Extents \X Extents

\* a half-spectrum field with a different non-zero value at every index
FieldOf(s, k) ==
    [shape |-> s,
     data  |-> [i \in Idx(s) |-> Q(k * (1 + i[1] + s[1] * (i[2] + s[2] * i[3])))]]

PdInit ==
    \E g \in Grids, k \in 1..MaxFieldScale :
        pd = [pc |-> "L118", grid |-> g, orig |-> FieldOf(HalfShape(g), k),
              f |-> FieldOf(HalfShape(g), k)]

PdStep(from, to, field) ==
    /\ pd.pc = from
    /\ pd' = [pd EXCEPT !.pc = to, !.f = field]
    /\ UNCHANGED <<wn, sq, lm>>

PdShiftPad     == PdStep("L118", "L119", FftShift(pd.f))
PdPad          == PdStep("L119", "L120", Pad(pd.f, pd.grid))
PdUnshiftPad   == PdStep("L120", "L126", IfftShift(pd.f))
PdShiftCrop    == PdStep("L126", "L127", FftShift(pd.f))
PdCrop         == PdStep("L127", "L128", Crop(pd.f, pd.grid))
PdUnshiftCrop  == PdStep("L128", "done", IfftShift(pd.f))

PdNext == PdShiftPad \/ PdPad \/ PdUnshiftPad \/ PdShiftCrop \/ PdCrop
          \/ PdUnshiftCrop

----------------------------------------------------------------------------
(* Collaborators of linear_modes: the Configuration, the wavenumber grid   *)
(* and the Boltzmann module.  Wavenumbers are in units of 2 pi and the     *)
(* amplitude amp stands for 2 pi^2 A_s.                                    *)

\* conf.ptcl_cell_vol, conf.ptcl_num, conf.box_vol
CellVol(spacing) == Q(spacing * spacing * spacing)
PtclNum(grid) == Q(Prod(grid))
BoxVol(grid, spacing) == Mul(CellVol(spacing), PtclNum(grid))

\* signed frequency number of index i on an axis of n points
FreqIdx(i, n) == IF i <= (n - 1) \div 2 THEN i ELSE i - n

\* line 98 on pmwd.pm_util.fftfreq: k^2 at index `at` (the last axis is the
\* reduced one and holds the non-negative frequencies only)
KSq(at, grid, spacing) ==
    LET t(i, n) == Norm(i * i, n * n * spacing * spacing)
    IN  Add(Add(t(FreqIdx(at[1], grid[1]), grid[1]),
                t(FreqIdx(at[2], grid[2]), grid[2])),
            t(at[3], grid[3]))

RECURSIVE PowQ(_, _)
\* x**e for a plain x and an integer e
PowQ(x, e) ==
    IF e = 0 THEN One
    ELSE IF e < 0 THEN Div(One, PowQ(x, -e))
    ELSE Mul(x, PowQ(x, e - 1))

\* Powers of k = sqrt(k^2) are kept as <<coefficient, exponent of k>>; at
\* k = 0 the power is evaluated at once (0**e is inf, 1 or 0)
KPow(kk, scale, e) ==
    IF kk = Zero THEN <<PowQ(Zero, e), 0>> ELSE <<PowQ(scale, -e), e>>

MonoMul(p, q) == <<Mul(p[1], q[1]), p[2] + q[2]>>

\* the plain value of a monomial with an even exponent
MonoPlain(p, kk) == Mul(p[1], PowQ(kk, p[2] \div 2))

\* lines 108-109: 2 pi^2 A_s (k / k_pivot)**(n_s - 1) * k**(-3)
PprimFormula(kk, amp, kp, ns) ==
    MonoPlain(MonoMul(MonoMul(<<amp, 0>>, KPow(kk, kp, ns - 1)),
                      KPow(kk, One, -3)),
              kk)

\* line 110: Pprim.at[0,0,0].set(0.)
DC == <<0, 0, 0>>

SetDCSkipped(P, at) == P

SetDC(P, at) == IF at = DC THEN Zero ELSE P

\* growth factor of the optional scale factor a (<<>> is None)
Growth(a) == IF a = <<>> THEN One ELSE a

\* pmwd.boltzmann.linear_transfer: a positive transfer function times growth
LinearTransfer(kk, a) ==
    Mul(Growth(a), IF kk = Zero THEN One ELSE <<1, 2>>)

\* pmwd.boltzmann.linear_power: the primordial spectrum times the square of
\* the transfer function times k^2; no power at k = 0
LinearPower(kk, a, amp, kp, ns) ==
    IF kk = Zero THEN Zero
    ELSE LET t == Mul(LinearTransfer(kk, a), kk)
         IN  Mul(PprimFormula(kk, amp, kp, ns), Mul(t, t))

\* line 112: _safe_sqrt(Pprim / conf.ptcl_cell_vol)
PrimFactor(Pprim, cellVol) == SafeSqrt(Div(Pprim, cellVol))

\* line 138: Tlin * conf.box_vol / jnp.sqrt(conf.ptcl_num)
TransferFactorByNum(Tlin, boxVol, num) == Div(Sq(Mul(Tlin, boxVol)), Sq(num))

TransferFactor(Tlin, boxVol, num) == Div(Sq(Mul(Tlin, boxVol)), num)

\* line 141: _safe_sqrt(Plin * conf.box_vol)
PowerFactor(Plin, boxVol) == SafeSqrt(Mul(Plin, boxVol))

----------------------------------------------------------------------------
(* linear_modes, lines 67-146 *)

NoNG == [dom |-> "none", shape |-> <<0, 0, 0>>, dcAt |-> DC]

Lost == <<-1, -1, -1>>

\* where the entry at i goes under the crop of line 127
CropIdx(i, s, grid) ==
    LET b == CropStart(grid)
        e == CropStop(s, grid)
    IN  IF \A a \in 1..3 : i[a] >= b[a] /\ i[a] < e[a]
        THEN <<i[1] - b[1], i[2] - b[2], i[3] - b[3]>>
        ELSE Lost

Ev(op, norm, dom) == <<op, norm, dom>>

\* line 106: which branch runs
NonGaussianIfNonZero(flag, fnl) == fnl # Zero

NonGaussian(flag, fnl) == flag

\* line 103: jnp.isrealobj(modes)
IsRealObjNever(arr) == FALSE

IsRealObj(arr) == arr.dom = "real"

\* the array the caller passes as modes
InputModes(kind, shape, c, at) ==
    [dom |-> IF kind = "real" THEN "real" ELSE "spec", shape |-> shape,
     c |-> c, ng |-> Zero, nrm |-> One]

\* the shape of modes that conf.ptcl_grid_shape calls for
ExpectedShape(kind, grid) == IF kind = "real" THEN grid ELSE HalfShape(grid)

LmRaise == [lm EXCEPT !.pc = "raised"]

\* lines 97-101: the wavenumber grid
LmL97 ==
    /\ lm.pc = "L97"
    /\ lm' = [lm EXCEPT !.pc = "L103", !.kshape = HalfShape(lm.grid),
                        !.kk = KSq(lm.at, lm.grid, lm.spacing),
                        !.modes = InputModes(lm.inKind, lm.inShape, lm.c0, lm.at)]
    /\ UNCHANGED <<wn, sq, pd>>

\* lines 103-104
LmL103 ==
    /\ lm.pc = "L103"
    /\ lm' = IF IsRealObj(lm.modes)
             THEN [lm EXCEPT !.pc = "L106", !.modes = FftFwdOrtho(lm.modes),
                             !.trace = Append(@, Ev("fftfwd", "ortho", lm.modes.dom))]
             ELSE [lm EXCEPT !.pc = "L106"]
    /\ UNCHANGED <<wn, sq, pd>>

\* line 106 and the else of line 139
LmL106 ==
    /\ lm.pc = "L106"
    /\ lm' = IF NonGaussian(lm.flag, lm.fnl)
             THEN [lm EXCEPT !.pc = "L107",
                             !.trace = Append(@, Ev("branch", "non_gaussian", ""))]
             ELSE [lm EXCEPT !.pc = "L140",
                             !.trace = Append(@, Ev("branch", "gaussian", ""))]
    /\ UNCHANGED <<wn, sq, pd>>

\* line 107
LmL107 ==
    /\ lm.pc = "L107"
    /\ lm' = [lm EXCEPT !.pc = "L108",
                        !.Tlin = Mul(LinearTransfer(lm.kk, lm.a), lm.kk),
                        !.trace = Append(@, Ev("linear_transfer", "", ""))]
    /\ UNCHANGED <<wn, sq, pd>>

\* lines 108-109
LmL108 ==
    /\ lm.pc = "L108"
    /\ LET P == PprimFormula(lm.kk, lm.amp, lm.kp, lm.ns)
       IN  lm' = [lm EXCEPT !.pc = "L110", !.Pprim = P, !.PprimRaw = P]
    /\ UNCHANGED <<wn, sq, pd>>

\* line 110
LmL110 ==
    /\ lm.pc = "L110"
    /\ lm' = [lm EXCEPT !.pc = "L112", !.Pprim = SetDC(lm.Pprim, lm.at)]
    /\ UNCHANGED <<wn, sq, pd>>

\* line 112
LmL112 ==
    /\ lm.pc = "L112"
    /\ LET t == Broadcast(lm.modes.shape, lm.kshape)
       IN  lm' = IF t = <<>> THEN LmRaise
                 ELSE [lm EXCEPT !.pc = "L114",
                          !.modes = [lm.modes EXCEPT
                              !.shape = t,
                              !.c = Scale(lm.modes.c,
                                          PrimFactor(lm.Pprim, CellVol(lm.spacing)))],
                          !.trace = Append(@, Ev("scale", "primordial", lm.modes.dom))]
    /\ UNCHANGED <<wn, sq, pd>>

\* line 114
LmL114 ==
    /\ lm.pc = "L114"
    /\ lm' = [lm EXCEPT !.pc = "L115",
                 !.modes = FftInvOrtho(lm.modes, DefaultRealShape(lm.modes.shape), lm.at),
                 !.trace = Append(@, Ev("fftinv", "ortho", lm.modes.dom))]
    /\ UNCHANGED <<wn, sq, pd>>

\* line 115
LmL115 ==
    /\ lm.pc = "L115"
    /\ lm' = [lm EXCEPT !.pc = "L118", !.modes = Rfftn(lm.modes),
                 !.trace = Append(@, Ev("rfftn", "backward", lm.modes.dom))]
    /\ UNCHANGED <<wn, sq, pd>>

\* line 118
LmL118 ==
    /\ lm.pc = "L118"
    /\ lm' = [lm EXCEPT !.pc = "L119",
                 !.modes_NG = [dom |-> lm.modes.dom, shape |-> lm.modes.shape,
                               dcAt |-> ShiftIdx(DC, lm.modes.shape)]]
    /\ UNCHANGED <<wn, sq, pd>>

\* line 119
LmL119 ==
    /\ lm.pc = "L119"
    /\ lm' = [lm EXCEPT !.pc = "L120",
                 !.modes_NG = [@ EXCEPT !.shape = PadShape(@, lm.grid),
                                        !.dcAt = PadIdx(@, lm.grid)],
                 !.trace = Append(@, Ev("pad", "", lm.modes_NG.dom))]
    /\ UNCHANGED <<wn, sq, pd>>

\* line 120
LmL120 ==
    /\ lm.pc = "L120"
    /\ lm' = [lm EXCEPT !.pc = "L123",
                 !.modes_NG = [@ EXCEPT !.dcAt = UnshiftIdx(@, lm.modes_NG.shape)],
                 !.padShape = lm.modes_NG.shape]
    /\ UNCHANGED <<wn, sq, pd>>

\* line 123: rfftn(irfftn(modes_NG)**2.)
LmL123 ==
    /\ lm.pc = "L123"
    /\ LET r == DefaultRealShape(lm.modes_NG.shape)
       IN  lm' = [lm EXCEPT !.pc = "L126",
                     !.sqShape = r,
                     !.modes_NG = [dom |-> "spec", shape |-> HalfShape(r), dcAt |-> DC],
                     !.trace = @ \o <<Ev("irfftn", "backward", lm.modes_NG.dom),
                                      Ev("square", "", "real"),
                                      Ev("rfftn", "backward", "real")>>]
    /\ UNCHANGED <<wn, sq, pd>>

\* line 126
LmL126 ==
    /\ lm.pc = "L126"
    /\ lm' = [lm EXCEPT !.pc = "L127",
                 !.modes_NG = [@ EXCEPT !.dcAt = ShiftIdx(@, lm.modes_NG.shape)]]
    /\ UNCHANGED <<wn, sq, pd>>

\* line 127
LmL127 ==
    /\ lm.pc = "L127"
    /\ lm' = [lm EXCEPT !.pc = "L128",
                 !.modes_NG = [@ EXCEPT
                      !.shape = CropShape(@, lm.grid),
                      !.dcAt = CropIdx(@, lm.modes_NG.shape, lm.grid)],
                 !.trace = Append(@, Ev("crop", "", lm.modes_NG.dom))]
    /\ UNCHANGED <<wn, sq, pd>>

\* line 128
LmL128 ==
    /\ lm.pc = "L128"
    /\ lm' = [lm EXCEPT !.pc = "L131",
                 !.modes_NG = [@ EXCEPT
                      !.dcAt = IF @ = Lost THEN Lost
                               ELSE UnshiftIdx(@, lm.modes_NG.shape)]]
    /\ UNCHANGED <<wn, sq, pd>>

\* line 131
LmL131 ==
    /\ lm.pc = "L131"
    /\ lm' = [lm EXCEPT !.pc = "L132", !.modes = Irfftn(lm.modes, lm.at),
                 !.trace = Append(@, Ev("irfftn", "backward", lm.modes.dom))]
    /\ UNCHANGED <<wn, sq, pd>>

\* line 132
LmL132 ==
    /\ lm.pc = "L132"
    /\ lm' = [lm EXCEPT !.pc = "L133",
                 !.modes_NG = [@ EXCEPT !.dom = "real",
                                        !.shape = DefaultRealShape(@)],
                 !.trace = Append(@, Ev("irfftn", "backward", lm.modes_NG.dom))]
    /\ UNCHANGED <<wn, sq, pd>>

\* the weight, at the observed index, of the term
\* 3/5 * f_nl * (modes_NG - mean(modes_NG)): the mean-free field has no
\* zero-frequency coefficient
NGWeight(fnl, at) ==
    IF at = DC THEN Mul(Sq(Mul(<<3, 5>>, fnl)), Zero) ELSE Sq(Mul(<<3, 5>>, fnl))

\* lines 133-134
LmL133 ==
    /\ lm.pc = "L133"
    /\ LET t == Broadcast(lm.modes.shape, lm.modes_NG.shape)
       IN  lm' = IF t = <<>> THEN LmRaise
                 ELSE [lm EXCEPT !.pc = "L137",
                          !.modes = [Fold(lm.modes) EXCEPT
                                        !.shape = t, !.ng = NGWeight(lm.fnl, lm.at)],
                          !.trace = @ \o <<Ev("read_f_nl", "", ""),
                                           Ev("combine", "", lm.modes.dom)>>]
    /\ UNCHANGED <<wn, sq, pd>>

\* line 137
LmL137 ==
    /\ lm.pc = "L137"
    /\ lm' = [lm EXCEPT !.pc = "L138", !.modes = FftFwdOrtho(lm.modes),
                 !.trace = Append(@, Ev("fftfwd", "ortho", lm.modes.dom))]
    /\ UNCHANGED <<wn, sq, pd>>

\* line 138
LmL138 ==
    /\ lm.pc = "L138"
    /\ LET t == Broadcast(lm.modes.shape, lm.kshape)
           f == TransferFactor(lm.Tlin, BoxVol(lm.grid, lm.spacing), PtclNum(lm.grid))
       IN  lm' = IF t = <<>> THEN LmRaise
                 ELSE [lm EXCEPT !.pc = "L143",
                          !.modes = [lm.modes EXCEPT !.shape = t,
                                                     !.c = Scale(lm.modes.c, f),
                                                     !.ng = Mul(lm.modes.ng, f)],
                          !.trace = Append(@, Ev("scale", "transfer", lm.modes.dom))]
    /\ UNCHANGED <<wn, sq, pd>>

\* line 140
LmL140 ==
    /\ lm.pc = "L140"
    /\ lm' = [lm EXCEPT !.pc = "L141",
                 !.Plin = LinearPower(lm.kk, lm.a, lm.amp, lm.kp, lm.ns),
                 !.trace = Append(@, Ev("linear_power", "", ""))]
    /\ UNCHANGED <<wn, sq, pd>>

\* line 141
LmL141 ==
    /\ lm.pc = "L141"
    /\ LET t == Broadcast(lm.modes.shape, lm.kshape)
       IN  lm' = IF t = <<>> THEN LmRaise
                 ELSE [lm EXCEPT !.pc = "L143",
                          !.modes = [lm.modes EXCEPT
                              !.shape = t,
                              !.c = Scale(lm.modes.c,
                                          PowerFactor(lm.Plin, BoxVol(lm.grid, lm.spacing)))],
                          !.trace = Append(@, Ev("scale", "power", lm.modes.dom))]
    /\ UNCHANGED <<wn, sq, pd>>

\* lines 143-144
LmL143 ==
    /\ lm.pc = "L143"
    /\ lm' = IF lm.real
             THEN [lm EXCEPT !.pc = "L146",
                      !.modes = FftInvSpacing(lm.modes, lm.grid, lm.spacing, lm.at),
                      !.trace = Append(@, Ev("fftinv", "spacing", lm.modes.dom))]
             ELSE [lm EXCEPT !.pc = "L146"]
    /\ UNCHANGED <<wn, sq, pd>>

\* line 146
LmL146 ==
    /\ lm.pc = "L146"
    /\ lm' = [lm EXCEPT !.pc = "done", !.modes = Fold(lm.modes),
                        !.out = Fold(lm.modes)]
    /\ UNCHANGED <<wn, sq, pd>>

FnlValues == {Zero, Q(2)}

\* the caller, having the Gaussian result, calls again with the same modes,
\* conf, a and real, and a cosmology with f_nl_loc_ set
LmRecall ==
    /\ lm.pc = "done"
    /\ ~lm.flag
    /\ \E f \in FnlValues :
          lm' = [lm EXCEPT !.pc = "L97", !.flag = TRUE, !.fnl = f,
                           !.ref = lm.out, !.ncall = @ + 1,
                           !.modes = NoArr, !.modes_NG = NoNG, !.out = NoArr,
                           !.trace = <<>>, !.Tlin = Zero, !.Pprim = Zero,
                           !.PprimRaw = Zero, !.Plin = Zero,
                           !.padShape = DC, !.sqShape = DC]
    /\ UNCHANGED <<wn, sq, pd>>

LmNext ==
    \/ LmL97 \/ LmL103 \/ LmL106 \/ LmL107 \/ LmL108 \/ LmL110 \/ LmL112
    \/ LmL114 \/ LmL115 \/ LmL118 \/ LmL119 \/ LmL120 \/ LmL123 \/ LmL126
    \/ LmL127 \/ LmL128 \/ LmL131 \/ LmL132 \/ LmL133 \/ LmL137 \/ LmL138
    \/ LmL140 \/ LmL141 \/ LmL143 \/ LmL146 \/ LmRecall

\* a call about to start
LmStart(grid, spacing, kind, shape, flag, fnl, real, a, ns, at, c) ==
    [pc |-> "L97", grid |-> grid, spacing |-> spacing, inKind |-> kind,
     inShape |-> shape, flag |-> flag, fnl |-> fnl, real |-> real, a |-> a,
     amp |-> One, kp |-> Q(2), ns |-> ns, at |-> at, c0 |-> c,
     kshape |-> DC, kk |-> Zero, Tlin |-> Zero, Pprim |-> Zero, PprimRaw |-> Zero,
     Plin |-> Zero, modes |-> NoArr, modes_NG |-> NoNG, trace |-> <<>>,
     padShape |-> DC, sqShape |-> DC, out |-> NoArr, ref |-> NoArr, ncall |-> 1]

\* extents below 4 get no padding at all and lead to transforms of length 0
LmExtents == PadDiv..MaxExtent

LmGrids == LmExtents \X LmExtents \X LmExtents

\* shapes of the modes argument: the one conf calls for, and two that differ
InShapes(kind, grid) ==
    LET e == ExpectedShape(kind, grid)
    IN  {e, <<1, 1, 1>>, <<e[1] + 1, e[2], e[3]>>}

\* every grid, input form and input shape, observed at the zero frequency
LmShapeInit ==
    \E g \in LmGrids, kind \in {"real", "fourier"}, flag \in BOOLEAN,
       f \in FnlValues, r \in BOOLEAN :
       \E sh \in InShapes(kind, g) :
          lm = LmStart(g, 1, kind, sh, flag, f, r, <<>>, 0, DC, <<Sq(Q(2)), Zero>>)

\* grids of even extents, observed at the zero frequency, at self-conjugate
\* and at ordinary indices, with the modes argument of the shape conf calls for
ValExtents == {e \in LmExtents : e % 2 = 0}

ValGrids == ValExtents \X ValExtents \X ValExtents

Probes(g) ==
    {DC, <<1, 0, 1>>, <<0, 0, g[3] \div 2>>,
     <<g[1] \div 2, g[2] \div 2, g[3] \div 2>>, <<g[1] - 1, 1, 0>>}

Coefficients == {<<Sq(Q(2)), Zero>>, <<Sq(Q(-1)), Sq(Q(2))>>}

\* a first call with f_nl_loc_ unset; a real-valued modes argument has the
\* spectrum of a real field
LmValInit ==
    \E g \in ValGrids, sp \in 1..2, kind \in {"real", "fourier"}, r \in BOOLEAN,
       a \in {<<>>, <<1, 2>>}, ns \in {0, 2}, c \in Coefficients :
       \E at \in Probes(g) :
          /\ kind = "real" => c = Consistent(c, at, g)
          /\ lm = LmStart(g, sp, kind, ExpectedShape(kind, g), FALSE, Zero, r, a,
                          ns, at, c)

WnIdle == [pc |-> "idle"]
LmIdle == [LmStart(<<4, 4, 4>>, 1, "real", <<4, 4, 4>>, FALSE, Zero, FALSE, <<>>, 0, DC,
                  <<Zero, Zero>>) EXCEPT !.pc = "idle"]
PdIdle == [pc |-> "idle"]

SqrtInit == SqInit /\ wn = WnIdle /\ lm = LmIdle /\ pd = PdIdle

SqrtNext == SqFwd \/ SqBwd

SpecSqrt == SqrtInit /\ [][SqrtNext]_vars

WnSpecInit == WnInit /\ sq = SqIdle /\ lm = LmIdle /\ pd = PdIdle

SpecWN == WnSpecInit /\ [][WnNext]_vars

PadInit == PdInit /\ wn = WnIdle /\ sq = SqIdle /\ lm = LmIdle

SpecPad == PadInit /\ [][PdNext]_vars

ShapeInit == LmShapeInit /\ wn = WnIdle /\ sq = SqIdle /\ pd = PdIdle

SpecShape == ShapeInit /\ [][LmNext]_vars

ValInit == LmValInit /\ wn = WnIdle /\ sq = SqIdle /\ pd = PdIdle

SpecVal == ValInit /\ [][LmNext]_vars

(* C6: when the backward rule of _safe_sqrt has run, the residual it was   *)
(* given is the forward output y; the cotangent it returns is exactly 0    *)
(* where y is 0, whatever y_cot is (inf and NaN included), and is          *)
(* 0.5 / y * y_cot where y is not 0: y_cot / (2 y) for finite values, NaN  *)
(* where y or y_cot is NaN, and 0 * y_cot where y is infinite.             *)
C6_SafeSqrtBackward ==
    sq.pc = "done" =>
        /\ sq.res = sq.y
        /\ sq.y = (IF sq.x[1] < 0 \/ sq.x = NaN THEN NaN ELSE sq.x)
        /\ sq.res = Zero => sq.x_cot = Zero
        /\ (sq.res # Zero /\ IsFinite(sq.res) /\ IsFinite(sq.y_cot)) =>
              /\ IsFinite(sq.x_cot)
              /\ sq.x_cot[1] * 4 * sq.res[1] * sq.y_cot[2]
                    = sq.y_cot[1] * sq.x_cot[2] * sq.res[2]
        /\ (sq.res # Zero /\ IsFinite(sq.res) /\ ~IsFinite(sq.y_cot)) =>
              sq.x_cot = sq.y_cot
        /\ sq.res = NaN => sq.x_cot = NaN
        /\ sq.res = Inf =>
              sq.x_cot = (IF IsFinite(sq.y_cot) THEN Zero ELSE NaN)

\* the zero-guarded branch has been taken with a non-finite incoming cotangent
C6_Witness ==
    /\ sq.pc = "done" /\ sq.x = Zero /\ sq.res = Zero
    /\ sq.y_cot = NaN /\ sq.x_cot = Zero

IsPrefix(s, t) == Len(s) <= Len(t) /\ \A i \in 1..Len(s) : s[i] = t[i]

\* what white_noise is to do to the samples, by option combination
WnExpectedTrace(real, unit_abs) ==
    IF real /\ ~unit_abs THEN <<"normal">>
    ELSE <<"normal", "fftfwd_ortho">>
         \o (IF unit_abs THEN <<"unit_abs">> ELSE <<>>)
         \o (IF real /\ unit_abs THEN <<"fftinv_ortho">> ELSE <<>>)

(* C1: in white_noise, with real and not unit_abs the samples are returned *)
(* with no transform; in every other combination they are forward-        *)
(* transformed once (orthonormal); the division by the absolute value      *)
(* happens iff unit_abs, after the forward transform; the orthonormal      *)
(* inverse happens iff real and unit_abs, after the division; the returned *)
(* array is in real space iff real.                                        *)
C1_WhiteNoiseSteps ==
    /\ wn.pc # "idle" => IsPrefix(wn.trace, WnExpectedTrace(wn.real, wn.unit_abs))
    /\ wn.pc = "done" =>
          /\ wn.trace = WnExpectedTrace(wn.real, wn.unit_abs)
          /\ (wn.out.dom = "real") = wn.real
          /\ wn.out.dom \in {"real", "spec"}
          /\ wn.out.shape = (IF wn.real THEN wn.shape ELSE HalfShape(wn.shape))

\* a call with real and unit_abs has gone through all three steps
C1_Witness ==
    /\ wn.pc = "done" /\ wn.real /\ wn.unit_abs
    /\ wn.trace = <<"normal", "fftfwd_ortho", "unit_abs", "fftinv_ortho">>
    /\ wn.out.dom = "real"

DivisibleGrid(g) == \A a \in 1..3 : g[a] % PadDiv = 0

(* C4 as stated: for a half-spectrum field of any grid shape, pad then     *)
(* crop (with the shifts, and nothing in between) returns the field: same  *)
(* extents, every coefficient at its index, the (3/2)^3 factors cancelled. *)
C4_AnyGridRoundTrip ==
    pd.pc = "done" => pd.f = pd.orig

(* C4 amended: the same, for grid shapes whose three extents are all       *)
(* divisible by 4.                                                         *)
C4_DivisibleGridRoundTrip ==
    (pd.pc = "done" /\ DivisibleGrid(pd.grid)) =>
        /\ pd.f.shape = pd.orig.shape
        /\ \A i \in Idx(pd.orig.shape) : pd.f.data[i] = pd.orig.data[i]

\* the round trip has been completed on an 8 x 4 x 8 grid
C4_Witness ==
    /\ pd.pc = "done" /\ pd.grid = <<8, 4, 8>>
    /\ pd.f = pd.orig /\ pd.orig.shape = <<8, 4, 5>>
    /\ pd.orig.data[<<7, 3, 4>>] # Zero

\* the modes argument is real-valued or the half-spectrum of a real field
HermitianInput == lm.c0 = Consistent(lm.c0, lm.at, lm.grid)

(* C5: in the non-Gaussian branch, whatever lines 108-109 gave at k = 0,   *)
(* after line 110 Pprim[0,0,0] is exactly 0, and after line 112 the        *)
(* zero-frequency entry of the scaled modes is exactly 0, not NaN, for     *)
(* every finite input coefficient there.                                   *)
C5_ZeroFrequencyIsZero ==
    (lm.flag /\ lm.at = DC) =>
        /\ lm.pc \in {"L112", "L114"} => lm.Pprim = Zero
        /\ (lm.pc = "L114" /\ IsFinite(lm.c0[1]) /\ IsFinite(lm.c0[2])) =>
              lm.modes.c = <<Zero, Zero>>

\* the formula gave NaN at k = 0 and a non-zero coefficient was scaled to 0
C5_Witness ==
    /\ lm.flag /\ lm.at = DC /\ lm.pc = "L114"
    /\ lm.PprimRaw = NaN /\ lm.Pprim = Zero
    /\ lm.c0[1] # Zero /\ lm.modes.c = <<Zero, Zero>>

Has(op) == \E i \in 1..Len(lm.trace) : lm.trace[i][1] = op

Count(op) == Cardinality({i \in 1..Len(lm.trace) : lm.trace[i][1] = op})

BranchDone == lm.pc \in {"L143", "L146", "done"}

(* C3: per call exactly one of the two branches of linear_modes runs, and  *)
(* which one depends on the flag f_nl_loc_ alone; with the flag unset      *)
(* f_nl is not read, linear_transfer is not called and nothing is padded,  *)
(* squared or cropped; with the flag set linear_power is not called.       *)
C3_OneBranchByFlag ==
    /\ Count("branch") <= 1
    /\ \A i \in 1..Len(lm.trace) :
          lm.trace[i][1] = "branch" =>
             lm.trace[i][2] = (IF lm.flag THEN "non_gaussian" ELSE "gaussian")
    /\ ~lm.flag => /\ ~Has("read_f_nl") /\ ~Has("linear_transfer")
                   /\ ~Has("pad") /\ ~Has("square") /\ ~Has("crop")
    /\ lm.flag => ~Has("linear_power")
    /\ BranchDone =>
          /\ Count("branch") = 1
          /\ ~lm.flag => Count("linear_power") = 1
          /\ lm.flag => /\ Count("linear_transfer") = 1 /\ Count("pad") = 1
                        /\ Count("square") = 1 /\ Count("crop") = 1
                        /\ Count("read_f_nl") = 1

\* a Gaussian call with a non-zero f_nl at hand has returned, and so has a
\* non-Gaussian call after it
C3_Witness ==
    /\ lm.pc = "done" /\ lm.flag /\ lm.ncall = 2 /\ lm.fnl = Zero
    /\ Has("square") /\ ~Has("linear_power")

(* C8: a call of linear_modes whose modes argument has not the shape that  *)
(* conf.ptcl_grid_shape calls for fails with an error before anything is   *)
(* scaled; it never returns a result.                                      *)
C8_MismatchFailsFast ==
    lm.inShape # ExpectedShape(lm.inKind, lm.grid) => lm.pc # "done"

ForwardOps == {"fftfwd", "rfftn"}
InverseOps == {"fftinv", "irfftn"}

(* C9: in linear_modes a real-valued input is forward-transformed once     *)
(* (orthonormal) before anything is scaled and a Fourier input is not;     *)
(* every forward transform is applied to a real-space array and every      *)
(* inverse transform to a spectral one; at the end of either branch the    *)
(* modes are spectral; the last inverse transform, with the grid-spacing   *)
(* normalisation, is applied iff real, so the output is real-space iff     *)
(* real.                                                                   *)
C9_TransformBookkeeping ==
    /\ \A i \in 1..Len(lm.trace) :
          /\ lm.trace[i][1] \in ForwardOps => lm.trace[i][3] = "real"
          /\ lm.trace[i][1] \in InverseOps => lm.trace[i][3] = "spec"
          /\ lm.trace[i][1] = "scale" => lm.trace[i][3] = "spec"
          /\ lm.trace[i][2] = "spacing" => (i = Len(lm.trace) /\ lm.real)
          /\ (lm.trace[i][1] = "fftfwd" /\ lm.trace[i][2] = "ortho" /\ i = 1)
                => lm.inKind = "real"
    /\ Len(lm.trace) >= 1 =>
          IF lm.inKind = "real"
          THEN lm.trace[1] = Ev("fftfwd", "ortho", "real")
          ELSE lm.trace[1][1] = "branch"
    /\ (lm.inKind = "real" /\ ~lm.flag) => Count("fftfwd") <= 1
    /\ lm.inKind # "real" => Count("fftfwd") <= (IF lm.flag THEN 1 ELSE 0)
    /\ lm.pc = "L143" => lm.modes.dom = "spec"
    /\ lm.pc \in {"L146", "done"} =>
          /\ lm.real = (lm.trace[Len(lm.trace)] = Ev("fftinv", "spacing", "spec"))
          /\ lm.real = (lm.modes.dom = "real")
          /\ lm.modes.dom \in {"real", "spec"}
    /\ lm.pc = "done" => lm.real = (lm.out.dom = "real")

\* a non-Gaussian call on a real-valued input with real output has returned
C9_Witness ==
    /\ lm.pc = "done" /\ lm.flag /\ lm.real /\ lm.inKind = "real"
    /\ lm.trace[1] = Ev("fftfwd", "ortho", "real")
    /\ lm.trace[Len(lm.trace)] = Ev("fftinv", "spacing", "spec")
    /\ lm.out.dom = "real" /\ lm.out.shape = lm.grid

(* C10: on a grid (n0, n1, n2) with every extent divisible by 4 the padded *)
(* half-spectrum has extents (3 n0/2, 3 n1/2, 3 n2/4 + 1), the field that  *)
(* is squared lives on (3 n0/2, 3 n1/2, 3 n2/2), the crop gives back       *)
(* (n0, n1, n2/2 + 1), the real fields that are combined have extents      *)
(* (n0, n1, n2), and the zero-frequency coefficient is at [0,0,0] after    *)
(* shift, pad, unshift and after shift, crop, unshift (for modes of the    *)
(* shape the grid calls for).                                              *)
C10_ShapesOnDivisibleGrid ==
    LET g == lm.grid
    IN  (lm.flag /\ DivisibleGrid(g) /\ lm.inShape = ExpectedShape(lm.inKind, g)) =>
           /\ lm.pc = "L123" =>
                 /\ lm.modes_NG.shape
                       = <<(3 * g[1]) \div 2, (3 * g[2]) \div 2, (3 * g[3]) \div 4 + 1>>
                 /\ lm.modes_NG.dcAt = DC
           /\ lm.pc = "L126" =>
                 lm.sqShape = <<(3 * g[1]) \div 2, (3 * g[2]) \div 2, (3 * g[3]) \div 2>>
           /\ lm.pc = "L131" =>
                 /\ lm.modes_NG.shape = <<g[1], g[2], g[3] \div 2 + 1>>
                 /\ lm.modes_NG.dcAt = DC
           /\ lm.pc = "L133" =>
                 /\ lm.modes.shape = g /\ lm.modes_NG.shape = g
           /\ lm.pc = "L137" => lm.modes.shape = g
           /\ lm.pc # "raised"

\* the crop has been undone on an 8 x 4 x 8 grid
C10_Witness ==
    /\ lm.flag /\ lm.grid = <<8, 4, 8>> /\ lm.pc = "L131"
    /\ lm.padShape = <<12, 6, 7>> /\ lm.sqShape = <<12, 6, 12>>
    /\ lm.modes_NG.shape = <<8, 4, 5>> /\ lm.modes_NG.dcAt = DC

====
